---- MODULE Spec2Model ----
(***************************************************************************)
(* The three-step multi-agent signing flow of src/src/MultiAgentTest.tsx:  *)
(* the component's React state, the three step handlers with their await   *)
(* points, the wallet adapter and chain SDK as an environment that answers *)
(* every call with a result or a throw, and the buttons that gate the      *)
(* handlers.                                                               *)
(*                                                                         *)
(* Strings the code inspects (the relay slots) are sequences of one-       *)
(* character strings, so that startsWith('0x'), slice(2) and the hex       *)
(* decoding are computed as the code computes them.                        *)
(***************************************************************************)
EXTENDS Integers, Sequences, FiniteSets, TLC

VARIABLES
    account,                \* useWallet().account: an address, or NoAccount
    logs,                   \* useState<string[]>([])
    loading,                \* useState(false)
    serializedTransaction,  \* useState<string>(""): relay slot of the transaction
    secondSignerSignature,  \* useState<string>(""): relay slot of the authenticator
    secondSignerAddress,    \* useState<string>("")
    inflight,               \* the handler invocations suspended at an await
    calls,                  \* the number of handler invocations so far
    trace                   \* the events of the current run: the invocations, the calls
                            \* made, their answers and the returns since Step 1 last began

vars == <<account, logs, loading, serializedTransaction, secondSignerSignature,
          secondSignerAddress, inflight, calls, trace>>

-----------------------------------------------------------------------------
\* Bounds of the model.

\* Handler invocations in one behaviour.
MaxCalls == 4
\* Handler invocations that can be suspended at the same time.
MaxInFlight == 2
\* Invocations and environment answers that fail in one run.
MaxFailures == 1

\* Seconds until a built transaction expires, counted from Date.now() at the
\* build; the model has no clock, so every build happens at second 0.
ExpirationSecs == 300
\* substring(0, 60) of the values written to the log.
LogPrefixLen == 60

-----------------------------------------------------------------------------
\* Values.

NoAccount == "none"
\* The addresses a wallet can connect with.
Identities == {"a", "b"}
\* window.prompt: null when cancelled, else the text typed (here empty, an
\* address, or text that is no address).
Null == "null"
PromptAnswers == {Null, "", "zz"} \cup Identities

\* What fetch() delivers: the compiled script, or the body of an error page
\* (a non-success response has a body too).
Scripts == {"c", "e"}
Bytecode == "c"
ErrorPage == "e"

NoTx == [sender |-> "", secondary |-> "", script |-> "", expire |-> 0]
NoAuth == [signer |-> "", over |-> NoTx]

Steps == {1, 2, 3}

-----------------------------------------------------------------------------
\* Strings as sequences of characters.

Prefix0x == <<"0", "x">>

HexDigits == <<"0", "1", "2", "3", "4", "5", "6", "7",
               "8", "9", "a", "b", "c", "d", "e", "f">>

IsHexDigit(c) == \E i \in 1..16 : HexDigits[i] = c

DigitValue(c) == (CHOOSE i \in 1..16 : HexDigits[i] = c) - 1

\* String.prototype.startsWith('0x')
StartsWith0x(s) == Len(s) >= 2 /\ s[1] = "0" /\ s[2] = "x"

\* String.prototype.slice(2)
Slice2(s) == SubSeq(s, 3, Len(s))

\* String.prototype.substring(0, n)
Substring0(s, n) == SubSeq(s, 1, IF Len(s) < n THEN Len(s) ELSE n)

-----------------------------------------------------------------------------
\* The SDK's binary serialization, as hexadecimal digits.

\* A u64 of the serialization, three digits wide here.
U64Digits(n) ==
    <<HexDigits[((n \div 256) % 16) + 1],
      HexDigits[((n \div 16) % 16) + 1],
      HexDigits[(n % 16) + 1]>>

U64Value(d) == DigitValue(d[1]) * 256 + DigitValue(d[2]) * 16 + DigitValue(d[3])

\* transaction.bcsToBytes(): sender, secondary signer, script, expiration.
TxDigits(tx) ==
    <<tx.sender, tx.secondary, tx.script>> \o U64Digits(tx.expire)

\* authenticator.bcsToBytes(): a variant tag, the signer and the signed message.
AuthDigits(auth) == <<"0", auth.signer>> \o TxDigits(auth.over)

\* Hex.toString(): the digits behind one 0x.
HexToString(digits) == Prefix0x \o digits

\* A failed parse.
Throw == "throw"

\* Hex.fromHexString(str).toUint8Array(): an optional 0x is dropped; an empty,
\* odd-length or non-hexadecimal string throws.
FromHexString(str) ==
    LET body == IF StartsWith0x(str) THEN Slice2(str) ELSE str
    IN  IF \/ Len(body) = 0
           \/ Len(body) % 2 # 0
           \/ \E i \in 1..Len(body) : ~IsHexDigit(body[i])
        THEN <<Throw>>
        ELSE body

\* MultiAgentTransaction.deserialize(new Deserializer(bytes))
DeserializeTx(bytes) ==
    IF /\ Len(bytes) = 6
       /\ bytes[1] \in Identities
       /\ bytes[2] \in Identities
       /\ bytes[3] \in Scripts
    THEN [sender |-> bytes[1], secondary |-> bytes[2], script |-> bytes[3],
          expire |-> U64Value(SubSeq(bytes, 4, 6))]
    ELSE NoTx

\* AccountAuthenticator.deserialize(new Deserializer(bytes))
DeserializeAuth(bytes) ==
    IF /\ Len(bytes) = 8
       /\ bytes[1] = "0"
       /\ bytes[2] \in Identities
       /\ DeserializeTx(SubSeq(bytes, 3, 8)) # NoTx
    THEN [signer |-> bytes[2], over |-> DeserializeTx(SubSeq(bytes, 3, 8))]
    ELSE NoAuth

-----------------------------------------------------------------------------
\* The log, the observed events and the suspended invocations.

Entry(marker, text, arg) == [marker |-> marker, text |-> text, arg |-> arg]

\* A log that sets the message in place of the entries: setLogs([msg]).
logReplacing(l, e) == <<e>>

\* log(msg): setLogs((prev) => [...prev, `[time] ${msg}`]).  The time prefix
\* is presentation and is left out of the entry.
log(l, e) == Append(l, e)

\* clearLogs(): setLogs([])
clearLogs == <<>>

\* The UI's test l.includes("ERROR") / l.includes("SUCCESS").
IsError(e) == e.marker = "ERROR"
IsSuccess(e) == e.marker = "SUCCESS"

Ev(ev, step, tx, auth, ok) ==
    [ev |-> ev, step |-> step, tx |-> tx, auth |-> auth, ok |-> ok]

\* A handler invocation suspended at an await: its position, the state its
\* closure captured when it was invoked, and its local constants.
Proc(step, at, acct, stx, sig, tx, reviewer, sender, bytecode) ==
    [step |-> step, at |-> at, account |-> acct,
     serializedTransaction |-> stx, secondSignerSignature |-> sig,
     transaction |-> tx, reviewerSignature |-> reviewer,
     senderSignature |-> sender, bytecode |-> bytecode]

Remove(s, i) == SubSeq(s, 1, i - 1) \o SubSeq(s, i + 1, Len(s))

\* The bound on invocations, and room for one more suspended invocation.
CanInvoke == calls < MaxCalls /\ Len(inflight) < MaxInFlight

\* The bound on failures: a rejected or failed invocation, a non-success
\* response, an unconfirmed transaction.
Failures == {i \in 1..Len(trace) : ~trace[i].ok}
CanFail == Cardinality(Failures) < MaxFailures

\* The answers the environment may give within the bound on failures.
Answers(all, nominal) == IF CanFail THEN all ELSE nominal

-----------------------------------------------------------------------------
\* Log entries of the handlers.

NotConnectedEntry == Entry("ERROR", "No account connected", <<>>)
MissingTransactionEntry ==
    Entry("ERROR", "No transaction to sign. Run Step 1 first.", <<>>)
MissingArtifactsEntry ==
    Entry("ERROR",
          "Missing transaction or second signer signature. Complete Steps 1 and 2 first.",
          <<>>)
AddressRequiredEntry == Entry("ERROR", "Second signer address required", <<>>)

\* A catch that logs the message without the ERROR prefix.
CaughtEntryUnmarked(message) == Entry("", message, <<>>)

\* catch (error) { log(`ERROR: ${error.message || error}`) }: what is thrown is
\* an Error or a string, so the template always yields a message.
CaughtEntry(message) == Entry("ERROR", message, <<>>)

\* A handler without the finally: loading stays as setLoading(true) left it.
FinallyMissing == TRUE

\* finally { setLoading(false) }
Finally == FALSE

-----------------------------------------------------------------------------
\* Step 1: the first sender creates the transaction.

EvInvoke(step) == Ev("invoke", step, NoTx, NoAuth, TRUE)
EvReturn(step, ok) == Ev("return", step, NoTx, NoAuth, ok)

\* if (!account)
Step1Begin(acct) == IF acct = NoAccount THEN "NotConnected" ELSE "run"

\* The handler up to its first await: the fetch in loadScript.
Step1Handler ==
    /\ CanInvoke
    /\ calls' = calls + 1
    /\ IF Step1Begin(account) = "NotConnected"
       THEN /\ CanFail
            /\ logs' = log(logs, NotConnectedEntry)
            /\ trace' = trace \o <<EvInvoke(1), EvReturn(1, FALSE)>>
            /\ UNCHANGED <<loading, inflight>>
       ELSE /\ loading' = TRUE
            /\ logs' = log(log(log(clearLogs,
                   Entry("", "=== STEP 1: Create Transaction (First Sender) ===", <<>>)),
                   Entry("", "First sender (you): ", <<account>>)),
                   Entry("", "Loading transfer_two_by_two.mv script...", <<>>))
            /\ inflight' = Append(inflight,
                   Proc(1, "fetch", account, serializedTransaction,
                        secondSignerSignature, NoTx, NoAuth, NoAuth, ""))
            /\ trace' = <<EvInvoke(1), Ev("fetch", 1, NoTx, NoAuth, TRUE)>>
    /\ UNCHANGED <<account, serializedTransaction, secondSignerSignature,
                   secondSignerAddress>>

\* catch and finally of a handler suspended as inflight[i]; events are the
\* answers observed before the throw.
Caught(i, message, events) ==
    /\ logs' = log(logs, CaughtEntry(message))
    /\ loading' = Finally
    /\ inflight' = Remove(inflight, i)
    /\ trace' = trace \o events \o <<EvReturn(inflight[i].step, FALSE)>>

\* await fetch("/transfer_two_by_two.mv") returns a response or throws.
FetchReturns(i) ==
    /\ inflight[i].step = 1 /\ inflight[i].at = "fetch"
    /\ \E r \in Answers({"ok", "notok", "throw"}, {"ok"}) :
         IF r = "throw"
         THEN Caught(i, "Failed to fetch", <<>>)
         ELSE /\ inflight' = [inflight EXCEPT
                     ![i].at = "body",
                     ![i].bytecode = IF r = "ok" THEN Bytecode ELSE ErrorPage]
              /\ trace' = trace \o <<Ev("fetched", 1, NoTx, NoAuth, r = "ok")>>
              /\ UNCHANGED <<logs, loading>>
    /\ UNCHANGED <<calls, account, serializedTransaction, secondSignerSignature,
                   secondSignerAddress>>

\* if (!secondSignerAddr)
PromptMissing(answer) == answer = Null \/ answer = ""

\* AccountAddress.from(secondSignerAddr) throws on text that is no address.
IsAddress(text) == text \in Identities

\* await response.arrayBuffer() returns; then the prompt, the addresses and the
\* call of movement.transaction.build.multiAgent.
BodyReturns(i) ==
    LET p == inflight[i]
        loaded == log(logs, Entry("", "Script loaded: bytes", <<p.bytecode>>))
    IN
    /\ p.step = 1 /\ p.at = "body"
    /\ \E r \in Answers({"ok", "throw"}, {"ok"}),
          answer \in Answers(PromptAnswers, Identities) :
         IF r = "throw"
         THEN /\ Caught(i, "Failed to read body", <<>>)
              /\ UNCHANGED secondSignerAddress
         ELSE IF PromptMissing(answer)
         THEN /\ logs' = log(loaded, AddressRequiredEntry)
              /\ loading' = Finally
              /\ inflight' = Remove(inflight, i)
              /\ trace' = trace \o <<EvReturn(1, FALSE)>>
              /\ UNCHANGED secondSignerAddress
         ELSE IF ~IsAddress(answer)
         THEN /\ secondSignerAddress' = answer
              /\ logs' = log(loaded, CaughtEntry("Invalid account address"))
              /\ loading' = Finally
              /\ inflight' = Remove(inflight, i)
              /\ trace' = trace \o <<EvReturn(1, FALSE)>>
         ELSE LET tx == [sender |-> p.account, secondary |-> answer,
                         script |-> p.bytecode, expire |-> ExpirationSecs]
              IN  /\ secondSignerAddress' = answer
                  /\ logs' = log(loaded,
                         Entry("", "Building multi-agent transaction (5 min expiration)...", <<>>))
                  /\ inflight' = [inflight EXCEPT ![i].at = "build", ![i].transaction = tx]
                  /\ trace' = trace \o <<Ev("build", 1, tx, NoAuth, TRUE)>>
                  /\ UNCHANGED loading
    /\ UNCHANGED <<calls, account, serializedTransaction, secondSignerSignature>>

\* transaction.bcsToHex().toString()
SerializeTx(tx) == HexToString(TxDigits(tx))

\* The store left out.
SetSerializedTransactionOmitted(old, serializedTx) == old

\* setSerializedTransaction(serializedTx)
SetSerializedTransaction(old, serializedTx) == serializedTx

\* await build.multiAgent(...) returns the transaction or throws; then the
\* serialization (which may throw), the store and the closing log entries.
BuildReturns(i) ==
    LET p == inflight[i]
        serializedTx == SerializeTx(p.transaction)
    IN
    /\ p.step = 1 /\ p.at = "build"
    /\ \E r \in Answers({"ok", "throw", "serialize"}, {"ok"}) :
         IF r = "throw"
         THEN /\ Caught(i, "Build failed", <<>>)
              /\ UNCHANGED serializedTransaction
         ELSE IF r = "serialize"
         THEN /\ Caught(i, "Serialization failed",
                        <<Ev("built", 1, p.transaction, NoAuth, TRUE)>>)
              /\ UNCHANGED serializedTransaction
         ELSE /\ serializedTransaction' =
                     SetSerializedTransaction(serializedTransaction, serializedTx)
              /\ logs' = log(log(log(log(logs,
                     Entry("", "Transaction created and serialized", <<>>)),
                     Entry("", "Serialized TX: ", Substring0(serializedTx, LogPrefixLen))),
                     Entry("", "", <<>>)),
                     Entry("", "Now switch wallet to second signer and click Step 2", <<>>))
              /\ loading' = Finally
              /\ inflight' = Remove(inflight, i)
              /\ trace' = trace \o <<Ev("built", 1, p.transaction, NoAuth, TRUE),
                                     EvReturn(1, TRUE)>>
    /\ UNCHANGED <<calls, account, secondSignerSignature, secondSignerAddress>>

-----------------------------------------------------------------------------
\* Step 2: the second sender signs.

\* A Step 2 that rejects a wallet other than the transaction's secondary signer.
Step2BeginChecked(acct, stx) ==
    IF acct = NoAccount
    THEN [kind |-> "NotConnected", transaction |-> NoTx]
    ELSE IF stx = <<>>
    THEN [kind |-> "MissingTransaction", transaction |-> NoTx]
    ELSE LET tx == DeserializeTx(FromHexString(stx))
         IN  IF tx = NoTx \/ tx.secondary # acct
             THEN [kind |-> "throw", transaction |-> NoTx]
             ELSE [kind |-> "sign", transaction |-> tx]

\* The handler up to signTransaction: the two guards and the deserialization.
Step2Begin(acct, stx) ==
    IF acct = NoAccount
    THEN [kind |-> "NotConnected", transaction |-> NoTx]
    ELSE IF stx = <<>>
    THEN [kind |-> "MissingTransaction", transaction |-> NoTx]
    ELSE LET tx == DeserializeTx(FromHexString(stx))
         IN  IF tx = NoTx
             THEN [kind |-> "throw", transaction |-> NoTx]
             ELSE [kind |-> "sign", transaction |-> tx]

Step2Handler ==
    LET b == Step2Begin(account, serializedTransaction)
        started == log(log(logs,
            Entry("", "=== STEP 2: Second Sender Signs ===", <<>>)),
            Entry("", "Current wallet: ", <<account>>))
    IN
    /\ CanInvoke
    /\ calls' = calls + 1
    /\ (b.kind = "sign" \/ CanFail)
    /\ CASE b.kind = "NotConnected" ->
              /\ logs' = log(logs, NotConnectedEntry)
              /\ trace' = trace \o <<EvInvoke(2), EvReturn(2, FALSE)>>
              /\ UNCHANGED <<loading, inflight>>
         [] b.kind = "MissingTransaction" ->
              /\ logs' = log(logs, MissingTransactionEntry)
              /\ trace' = trace \o <<EvInvoke(2), EvReturn(2, FALSE)>>
              /\ UNCHANGED <<loading, inflight>>
         [] b.kind = "throw" ->
              \* setLoading(true) and the finally's setLoading(false) in one turn
              /\ logs' = log(started, CaughtEntry("Deserialization failed"))
              /\ loading' = Finally
              /\ trace' = trace \o <<EvInvoke(2), EvReturn(2, FALSE)>>
              /\ UNCHANGED inflight
         [] b.kind = "sign" ->
              /\ loading' = TRUE
              /\ logs' = log(log(started,
                     Entry("", "Transaction deserialized", <<>>)),
                     Entry("", "Requesting wallet signature...", <<>>))
              /\ inflight' = Append(inflight,
                     Proc(2, "sign", account, serializedTransaction,
                          secondSignerSignature, b.transaction, NoAuth, NoAuth, ""))
              /\ trace' = trace \o <<EvInvoke(2), Ev("sign", 2, b.transaction, NoAuth, TRUE)>>
    /\ UNCHANGED <<account, serializedTransaction, secondSignerSignature,
                   secondSignerAddress>>

\* signTransaction({transactionOrPayload}): the connected wallet's
\* authenticator over the transaction.
WalletAuthenticator(acct, tx) == [signer |-> acct, over |-> tx]

\* The prefix added without the test for one already there.
NormalizeAuthenticatorAlways(authenticatorBcsHex) == Prefix0x \o authenticatorBcsHex

\* authenticatorBcsHex.startsWith('0x') ? authenticatorBcsHex : '0x' + authenticatorBcsHex
NormalizeAuthenticator(authenticatorBcsHex) ==
    IF StartsWith0x(authenticatorBcsHex)
    THEN authenticatorBcsHex
    ELSE Prefix0x \o authenticatorBcsHex

\* A store that keeps a signature already present.
SetSecondSignerSignatureOnce(old, authenticatorBcs) ==
    IF old = <<>> THEN authenticatorBcs ELSE old

\* setSecondSignerSignature(authenticatorBcs)
SetSecondSignerSignature(old, authenticatorBcs) == authenticatorBcs

\* await signTransaction(...) returns or throws; then the serialization of the
\* authenticator (with or without 0x, as the SDK's toString decides; it may
\* throw), the store and the closing log entries.
Sign2Returns(i) ==
    LET p == inflight[i]
        signature == WalletAuthenticator(p.account, p.transaction)
    IN
    /\ p.step = 2 /\ p.at = "sign"
    /\ \E r \in Answers({"ok", "throw", "serialize"}, {"ok"}), prefixed \in BOOLEAN :
         IF r = "throw"
         THEN /\ Caught(i, "User rejected the request", <<>>)
              /\ UNCHANGED secondSignerSignature
         ELSE IF r = "serialize"
         THEN /\ Caught(i, "Serialization failed",
                        <<Ev("signed", 2, p.transaction, signature, TRUE)>>)
              /\ UNCHANGED secondSignerSignature
         ELSE LET authenticatorBcsHex ==
                      IF prefixed THEN HexToString(AuthDigits(signature))
                                  ELSE AuthDigits(signature)
                  authenticatorBcs == NormalizeAuthenticator(authenticatorBcsHex)
              IN  /\ secondSignerSignature' =
                         SetSecondSignerSignature(secondSignerSignature, authenticatorBcs)
                  /\ logs' = log(log(log(log(logs,
                         Entry("", "Wallet signed successfully", <<>>)),
                         Entry("", "Serialized signature: ",
                               Substring0(authenticatorBcs, LogPrefixLen))),
                         Entry("", "", <<>>)),
                         Entry("", "Now switch wallet back to first signer and click Step 3", <<>>))
                  /\ loading' = Finally
                  /\ inflight' = Remove(inflight, i)
                  /\ trace' = trace \o <<Ev("signed", 2, p.transaction, signature, TRUE),
                                         EvReturn(2, TRUE)>>
    /\ UNCHANGED <<calls, account, serializedTransaction, secondSignerAddress>>

-----------------------------------------------------------------------------
\* Step 3: the first sender signs and submits.

\* secondSignerSignature.startsWith('0x') ? secondSignerSignature.slice(2) : secondSignerSignature
SignatureHex(sig) == IF StartsWith0x(sig) THEN Slice2(sig) ELSE sig

\* The guard written with && for ||.
Step3BeginAnd(acct, stx, sig) ==
    IF acct = NoAccount
    THEN [kind |-> "NotConnected", transaction |-> NoTx, reviewerSignature |-> NoAuth]
    ELSE IF stx = <<>> /\ sig = <<>>
    THEN [kind |-> "MissingArtifacts", transaction |-> NoTx, reviewerSignature |-> NoAuth]
    ELSE LET tx == DeserializeTx(FromHexString(stx))
             reviewer == DeserializeAuth(FromHexString(SignatureHex(sig)))
         IN  IF tx = NoTx
             THEN [kind |-> "throwTx", transaction |-> NoTx, reviewerSignature |-> NoAuth]
             ELSE IF reviewer = NoAuth
             THEN [kind |-> "throwSig", transaction |-> tx, reviewerSignature |-> NoAuth]
             ELSE [kind |-> "sign", transaction |-> tx, reviewerSignature |-> reviewer]

\* The guard on the transaction slot alone, and the second signer's signature
\* deserialized only once the wallet has signed.
Step3BeginLate(acct, stx, sig) ==
    IF acct = NoAccount
    THEN [kind |-> "NotConnected", transaction |-> NoTx, reviewerSignature |-> NoAuth]
    ELSE IF stx = <<>>
    THEN [kind |-> "MissingArtifacts", transaction |-> NoTx, reviewerSignature |-> NoAuth]
    ELSE LET tx == DeserializeTx(FromHexString(stx))
         IN  IF tx = NoTx
             THEN [kind |-> "throwTx", transaction |-> NoTx, reviewerSignature |-> NoAuth]
             ELSE [kind |-> "sign", transaction |-> tx,
                   reviewerSignature |-> DeserializeAuth(FromHexString(SignatureHex(sig)))]

\* The handler up to signTransaction: the two guards and the two deserializations.
Step3Begin(acct, stx, sig) ==
    IF acct = NoAccount
    THEN [kind |-> "NotConnected", transaction |-> NoTx, reviewerSignature |-> NoAuth]
    ELSE IF stx = <<>> \/ sig = <<>>
    THEN [kind |-> "MissingArtifacts", transaction |-> NoTx, reviewerSignature |-> NoAuth]
    ELSE LET tx == DeserializeTx(FromHexString(stx))
             reviewer == DeserializeAuth(FromHexString(SignatureHex(sig)))
         IN  IF tx = NoTx
             THEN [kind |-> "throwTx", transaction |-> NoTx, reviewerSignature |-> NoAuth]
             ELSE IF reviewer = NoAuth
             THEN [kind |-> "throwSig", transaction |-> tx, reviewerSignature |-> NoAuth]
             ELSE [kind |-> "sign", transaction |-> tx, reviewerSignature |-> reviewer]

Step3Handler ==
    LET b == Step3Begin(account, serializedTransaction, secondSignerSignature)
        started == log(log(logs,
            Entry("", "=== STEP 3: First Sender Signs & Submits ===", <<>>)),
            Entry("", "Current wallet: ", <<account>>))
        deserialized == log(started, Entry("", "Transaction deserialized", <<>>))
    IN
    /\ CanInvoke
    /\ calls' = calls + 1
    /\ (b.kind = "sign" \/ CanFail)
    /\ CASE b.kind = "NotConnected" ->
              /\ logs' = log(logs, NotConnectedEntry)
              /\ trace' = trace \o <<EvInvoke(3), EvReturn(3, FALSE)>>
              /\ UNCHANGED <<loading, inflight>>
         [] b.kind = "MissingArtifacts" ->
              /\ logs' = log(logs, MissingArtifactsEntry)
              /\ trace' = trace \o <<EvInvoke(3), EvReturn(3, FALSE)>>
              /\ UNCHANGED <<loading, inflight>>
         [] b.kind = "throwTx" ->
              /\ logs' = log(started, CaughtEntry("Deserialization failed"))
              /\ loading' = Finally
              /\ trace' = trace \o <<EvInvoke(3), EvReturn(3, FALSE)>>
              /\ UNCHANGED inflight
         [] b.kind = "throwSig" ->
              /\ logs' = log(deserialized, CaughtEntry("Deserialization failed"))
              /\ loading' = Finally
              /\ trace' = trace \o <<EvInvoke(3), EvReturn(3, FALSE)>>
              /\ UNCHANGED inflight
         [] b.kind = "sign" ->
              /\ loading' = TRUE
              /\ logs' = log(log(deserialized,
                     Entry("", "Reviewer signature deserialized", <<>>)),
                     Entry("", "Requesting wallet signature...", <<>>))
              /\ inflight' = Append(inflight,
                     Proc(3, "sign", account, serializedTransaction,
                          secondSignerSignature, b.transaction, b.reviewerSignature,
                          NoAuth, ""))
              /\ trace' = trace \o <<EvInvoke(3), Ev("sign", 3, b.transaction, NoAuth, TRUE)>>
    /\ UNCHANGED <<account, serializedTransaction, secondSignerSignature,
                   secondSignerAddress>>

\* await signTransaction(...) returns or throws; then submitTransaction is called
\* with the transaction, the sender's authenticator and [reviewerSignature].
Sign3Returns(i) ==
    LET p == inflight[i]
        senderSignature == WalletAuthenticator(p.account, p.transaction)
    IN
    /\ p.step = 3 /\ p.at = "sign"
    /\ \E r \in Answers({"ok", "throw"}, {"ok"}) :
         IF r = "throw"
         THEN Caught(i, "User rejected the request", <<>>)
         ELSE /\ logs' = log(log(logs,
                     Entry("", "Wallet signed successfully", <<>>)),
                     Entry("", "Submitting via wallet adapter submitTransaction...", <<>>))
              /\ inflight' = [inflight EXCEPT ![i].at = "submit",
                                              ![i].senderSignature = senderSignature]
              /\ trace' = trace \o
                     <<Ev("signed", 3, p.transaction, senderSignature, TRUE),
                       Ev("submit", 3, p.transaction, p.reviewerSignature, TRUE)>>
              /\ UNCHANGED loading
    /\ UNCHANGED <<calls, account, serializedTransaction, secondSignerSignature,
                   secondSignerAddress>>

\* tx.hash: the chain's identifier of the submitted transaction.
TxHash(tx) == HexToString(TxDigits(tx))

\* A submission whose failure is logged where it happens and not rethrown: the
\* handler goes on to the confirmation wait.
SubmitReturnsSwallowed(i) ==
    LET p == inflight[i]
    IN
    /\ p.step = 3 /\ p.at = "submit"
    /\ \E r \in Answers({"ok", "throw"}, {"ok"}) :
         /\ logs' = IF r = "throw"
                    THEN log(log(logs, CaughtEntry("Submission failed")),
                             Entry("", "Waiting for confirmation...", <<>>))
                    ELSE log(log(logs,
                             Entry("SUCCESS", "Transaction hash: ", TxHash(p.transaction))),
                             Entry("", "Waiting for confirmation...", <<>>))
         /\ inflight' = [inflight EXCEPT ![i].at = "wait"]
         /\ trace' = trace \o
                <<Ev("submitted", 3, p.transaction, p.reviewerSignature, r = "ok"),
                  Ev("wait", 3, p.transaction, NoAuth, TRUE)>>
         /\ UNCHANGED loading
    /\ UNCHANGED <<calls, account, serializedTransaction, secondSignerSignature,
                   secondSignerAddress>>

\* await submitTransaction(...) returns a hash or throws; then waitForTransaction
\* is called.
SubmitReturns(i) ==
    LET p == inflight[i]
    IN
    /\ p.step = 3 /\ p.at = "submit"
    /\ \E r \in Answers({"ok", "throw"}, {"ok"}) :
         IF r = "throw"
         THEN Caught(i, "Submission failed", <<>>)
         ELSE /\ logs' = log(log(logs,
                     Entry("SUCCESS", "Transaction hash: ", TxHash(p.transaction))),
                     Entry("", "Waiting for confirmation...", <<>>))
              /\ inflight' = [inflight EXCEPT ![i].at = "wait"]
              /\ trace' = trace \o
                     <<Ev("submitted", 3, p.transaction, p.reviewerSignature, TRUE),
                       Ev("wait", 3, p.transaction, NoAuth, TRUE)>>
              /\ UNCHANGED loading
    /\ UNCHANGED <<calls, account, serializedTransaction, secondSignerSignature,
                   secondSignerAddress>>

\* log(`Transaction confirmed: ${result.success}`)
ConfirmedEntry(success) ==
    Entry("", IF success THEN "Transaction confirmed: true"
                         ELSE "Transaction confirmed: false", <<>>)

\* A Step 3 that empties the transaction slot once the transaction is confirmed.
WaitReturnsClearing(i) ==
    LET p == inflight[i]
    IN
    /\ p.step = 3 /\ p.at = "wait"
    /\ \E r \in Answers({"true", "false", "throw"}, {"true"}) :
         IF r = "throw"
         THEN /\ Caught(i, "Transaction did not confirm", <<>>)
              /\ UNCHANGED serializedTransaction
         ELSE /\ logs' = log(logs, ConfirmedEntry(r = "true"))
              /\ loading' = Finally
              /\ inflight' = Remove(inflight, i)
              /\ trace' = trace \o <<Ev("confirmed", 3, p.transaction, NoAuth, r = "true"),
                                     EvReturn(3, TRUE)>>
              /\ serializedTransaction' = <<>>
    /\ UNCHANGED <<calls, account, secondSignerSignature, secondSignerAddress>>

\* await movement.waitForTransaction(...) returns {success} or throws.
WaitReturns(i) ==
    LET p == inflight[i]
    IN
    /\ p.step = 3 /\ p.at = "wait"
    /\ \E r \in Answers({"true", "false", "throw"}, {"true"}) :
         IF r = "throw"
         THEN Caught(i, "Transaction did not confirm", <<>>)
         ELSE /\ logs' = log(logs, ConfirmedEntry(r = "true"))
              /\ loading' = Finally
              /\ inflight' = Remove(inflight, i)
              /\ trace' = trace \o <<Ev("confirmed", 3, p.transaction, NoAuth, r = "true"),
                                     EvReturn(3, TRUE)>>
    /\ UNCHANGED <<calls, account, serializedTransaction, secondSignerSignature,
                   secondSignerAddress>>

-----------------------------------------------------------------------------
\* The wallet session.

\* connected, as the component renders it: an account is present.
connected == account # NoAccount

\* connect("Nightly"), or the provider's autoConnect.
Connect ==
    /\ account = NoAccount
    /\ \E id \in Identities : account' = id
    /\ UNCHANGED <<logs, loading, serializedTransaction, secondSignerSignature,
                   secondSignerAddress, inflight, calls, trace>>

\* disconnect()
Disconnect ==
    /\ account # NoAccount
    /\ account' = NoAccount
    /\ UNCHANGED <<logs, loading, serializedTransaction, secondSignerSignature,
                   secondSignerAddress, inflight, calls, trace>>

\* The user switches the wallet to another signer.
AccountChanged ==
    /\ account # NoAccount
    /\ \E id \in Identities \ {account} : account' = id
    /\ UNCHANGED <<logs, loading, serializedTransaction, secondSignerSignature,
                   secondSignerAddress, inflight, calls, trace>>

-----------------------------------------------------------------------------
\* A caller that invokes the handlers itself and awaits each returned promise
\* before it invokes the next.

Call1 == inflight = <<>> /\ Step1Handler
Call2 == inflight = <<>> /\ Step2Handler
Call3 == inflight = <<>> /\ Step3Handler

-----------------------------------------------------------------------------
\* The rendered buttons: a handler runs when its button is pressed, and a
\* button can be pressed when it is rendered and not disabled.

\* {connected && ( ... )}
StepsRendered == connected

\* disabled={loading}
Step1Disabled == loading
\* A Step 2 button that ignores loading.
Step2DisabledNoLoading == serializedTransaction = <<>>

\* disabled={loading || !serializedTransaction}
Step2Disabled == loading \/ serializedTransaction = <<>>
\* disabled={loading || !secondSignerSignature}
Step3Disabled == loading \/ secondSignerSignature = <<>>

Click1 == StepsRendered /\ ~Step1Disabled /\ Step1Handler
Click2 == StepsRendered /\ ~Step2Disabled /\ Step2Handler
Click3 == StepsRendered /\ ~Step3Disabled /\ Step3Handler

\* The Clear button: onClick={clearLogs}
ClickClear ==
    /\ logs # <<>>
    /\ logs' = clearLogs
    /\ UNCHANGED <<account, loading, serializedTransaction, secondSignerSignature,
                   secondSignerAddress, inflight, calls, trace>>

-----------------------------------------------------------------------------

Init ==
    /\ account = NoAccount
    /\ logs = <<>>
    /\ loading = FALSE
    /\ serializedTransaction = <<>>
    /\ secondSignerSignature = <<>>
    /\ secondSignerAddress = ""
    /\ inflight = <<>>
    /\ calls = 0
    /\ trace = <<>>

\* The completions of the awaited calls, of any suspended invocation.
FetchReturn == \E i \in 1..Len(inflight) : FetchReturns(i)
BodyReturn == \E i \in 1..Len(inflight) : BodyReturns(i)
BuildReturn == \E i \in 1..Len(inflight) : BuildReturns(i)
Sign2Return == \E i \in 1..Len(inflight) : Sign2Returns(i)
Sign3Return == \E i \in 1..Len(inflight) : Sign3Returns(i)
SubmitReturn == \E i \in 1..Len(inflight) : SubmitReturns(i)
WaitReturn == \E i \in 1..Len(inflight) : WaitReturns(i)

Returns ==
    \/ FetchReturn
    \/ BodyReturn
    \/ BuildReturn
    \/ Sign2Return
    \/ Sign3Return
    \/ SubmitReturn
    \/ WaitReturn

Environment == Connect \/ Disconnect \/ AccountChanged

Next == Environment \/ Call1 \/ Call2 \/ Call3 \/ Returns

\* The handlers invoked one after the other by an awaiting caller.
Spec == Init /\ [][Next]_vars

\* Every awaited call eventually returns or throws: the completion of a
\* suspended invocation is not postponed forever.
SpecLive == Spec /\ WF_vars(Returns)

NextUI == Environment \/ Click1 \/ Click2 \/ Click3 \/ Returns

\* The handlers invoked through the rendered step buttons only.
SpecUI == Init /\ [][NextUI]_vars

\* The step buttons and the Clear button of the log panel.
SpecUIClear == Init /\ [][NextUI \/ ClickClear]_vars

-----------------------------------------------------------------------------
\* What a step of the system did, read off the two states of the step.

Last(s) == s[Len(s)]

\* A handler was invoked in this step.
Invoked == calls' = calls + 1

LastInvokeIndex(t) ==
    CHOOSE i \in 1..Len(t) :
        t[i].ev = "invoke" /\ \A j \in (i + 1)..Len(t) : t[j].ev # "invoke"

\* The step whose handler was invoked in this step.
InvokedStep == trace'[LastInvokeIndex(trace')].step

\* The events this step added.
NewEvents ==
    IF Invoked
    THEN SubSeq(trace', LastInvokeIndex(trace'), Len(trace'))
    ELSE SubSeq(trace', Len(trace) + 1, Len(trace'))

\* The invocation of inflight[j] ended in this step.
Ended(j) == inflight' = Remove(inflight, j)

\* The log gained exactly one entry, and it carries the ERROR marker.
OneErrorLogged ==
    /\ Len(logs') = Len(logs) + 1
    /\ SubSeq(logs', 1, Len(logs)) = logs
    /\ IsError(Last(logs'))

\* The log was extended, and the entry added last carries the ERROR marker.
ErrorAppended ==
    /\ Len(logs') > Len(logs)
    /\ SubSeq(logs', 1, Len(logs)) = logs
    /\ IsError(Last(logs'))

RelayUnchanged ==
    /\ serializedTransaction' = serializedTransaction
    /\ secondSignerSignature' = secondSignerSignature

\* The authenticator a relay value decodes to, as Step 3 decodes it.
Decoded(sig) == DeserializeAuth(FromHexString(SignatureHex(sig)))

-----------------------------------------------------------------------------
\* C1: a step invoked while its precondition is unmet (no account; for Step 2
\* an empty transaction slot; for Step 3 an empty transaction or authenticator
\* slot) leaves both relay slots unchanged and adds exactly one log entry,
\* which carries the ERROR marker.

PreconditionUnmet(k) ==
    \/ account = NoAccount
    \/ k = 2 /\ serializedTransaction = <<>>
    \/ k = 3 /\ (serializedTransaction = <<>> \/ secondSignerSignature = <<>>)

C1_UnmetPreconditionRejected ==
    [][\A k \in Steps :
         (Invoked /\ InvokedStep = k /\ PreconditionUnmet(k))
             => (RelayUnchanged /\ OneErrorLogged)]_vars

\* Step 3 was rejected with the transaction present and the authenticator missing.
C1_Witness ==
    /\ Len(trace) >= 2
    /\ trace[Len(trace) - 1] = EvInvoke(3)
    /\ Last(trace) = EvReturn(3, FALSE)
    /\ serializedTransaction # <<>>
    /\ secondSignerSignature = <<>>
    /\ Last(logs) = MissingArtifactsEntry

-----------------------------------------------------------------------------
\* C2: Step 2 issues a wallet signature request only with the transaction slot
\* non-empty; Step 3 issues a wallet signature request or a submitTransaction
\* call only if both slots were non-empty when it was invoked.

C2_EffectsGated ==
    [][\A n \in 1..Len(NewEvents) :
         LET e == NewEvents[n] IN
         /\ (e.ev = "sign" /\ e.step = 2) => serializedTransaction # <<>>
         /\ (e.ev = "sign" /\ e.step = 3) =>
                (serializedTransaction # <<>> /\ secondSignerSignature # <<>>)
         /\ (e.ev = "submit") =>
                \E j \in 1..Len(inflight) :
                    /\ inflight[j].step = 3 /\ inflight[j].at = "sign"
                    /\ inflight'[j].at = "submit"
                    /\ inflight[j].serializedTransaction # <<>>
                    /\ inflight[j].secondSignerSignature # <<>>]_vars

\* Step 3 has called submitTransaction.
C2_Witness ==
    /\ Len(inflight) = 1
    /\ inflight[1].step = 3 /\ inflight[1].at = "submit"
    /\ Last(trace).ev = "submit"

-----------------------------------------------------------------------------
\* C3: when an awaited call of a step throws (or Step 1 aborts at the prompt),
\* the step ends by returning, an entry carrying the ERROR marker is appended
\* to the log, and both relay slots hold the values they held when the step
\* was invoked.

-----------------------------------------------------------------------------
\* C4: whenever Step 3 submits a transaction, the additional signer's
\* authenticator it passes is a countersignature over that same transaction.

C4_SubmitsCountersignatureOfSameTx ==
    [][\A n \in 1..Len(NewEvents) :
         NewEvents[n].ev = "submit" => NewEvents[n].auth.over = NewEvents[n].tx]_vars

-----------------------------------------------------------------------------
\* C5: after a successful Step 1 the transaction slot holds the new transaction
\* and the authenticator slot no longer holds the authenticator that was there
\* for the previous transaction.

C5_Step1IsFullReset ==
    [][\A j \in 1..Len(inflight) :
         (Ended(j) /\ Last(trace') = EvReturn(1, TRUE))
             => /\ serializedTransaction' = SerializeTx(inflight[j].transaction)
                /\ (secondSignerSignature # <<>>
                        => secondSignerSignature' # secondSignerSignature)]_vars

-----------------------------------------------------------------------------
\* C6: once Step 3 has completed successfully in a run (submission accepted and
\* confirmation reported), no later step of that run issues a wallet signature
\* request or a submission, and no relay slot changes.

Submitted ==
    \E n \in 1..Len(trace) :
        /\ trace[n].ev = "confirmed" /\ trace[n].ok
        /\ n < Len(trace) /\ trace[n + 1] = EvReturn(3, TRUE)

C6_SubmittedIsTerminal ==
    [][Submitted
         => /\ \A n \in 1..Len(NewEvents) : NewEvents[n].ev \notin {"sign", "submit"}
            /\ (Submitted' => RelayUnchanged)]_vars

-----------------------------------------------------------------------------
\* C7: on a fresh run (both slots empty when Step 1 is invoked) Step 1 returns
\* successfully if and only if afterwards the transaction slot is non-empty and
\* the authenticator slot is still empty; a Step 1 that fails or aborts leaves
\* the transaction slot empty.

\* Step 1 returned in this step, having been invoked with both slots empty.
FreshStep1Returned ==
    /\ trace' # trace
    /\ Last(trace').ev = "return" /\ Last(trace').step = 1
    /\ IF Invoked
       THEN serializedTransaction = <<>> /\ secondSignerSignature = <<>>
       ELSE \E j \in 1..Len(inflight) :
                /\ Ended(j)
                /\ inflight[j].serializedTransaction = <<>>
                /\ inflight[j].secondSignerSignature = <<>>

C7_Step1SuccessIffTxStored ==
    [][FreshStep1Returned
         => /\ Last(trace').ok <=>
                  (serializedTransaction' # <<>> /\ secondSignerSignature' = <<>>)
            /\ ~Last(trace').ok => serializedTransaction' = <<>>]_vars

\* The first invocation of a behaviour was Step 1, and it succeeded.
C7_Witness ==
    /\ calls = 1
    /\ Last(trace) = EvReturn(1, TRUE)
    /\ serializedTransaction # <<>>
    /\ secondSignerSignature = <<>>

-----------------------------------------------------------------------------
\* C8: a successful Step 2 stores the signature it obtained, replacing the one
\* of an earlier Step 2, and Step 3 passes to submitTransaction the signature
\* of the latest successful Step 2 of the run.

\* The positions of the signatures of the successful Step 2 invocations.
Step2Signed(t) ==
    {n \in 1..Len(t) :
        /\ t[n].ev = "signed" /\ t[n].step = 2
        /\ n < Len(t) /\ t[n + 1] = EvReturn(2, TRUE)}

Max(S) == CHOOSE n \in S : \A m \in S : m <= n

C8_LatestSignatureConsumed ==
    [][/\ \A j \in 1..Len(inflight) :
            (Ended(j) /\ Last(trace') = EvReturn(2, TRUE))
                => Decoded(secondSignerSignature') = trace'[Len(trace') - 1].auth
       /\ \A n \in 1..Len(NewEvents) :
            (NewEvents[n].ev = "submit" /\ Step2Signed(trace) # {})
                => NewEvents[n].auth = trace[Max(Step2Signed(trace))].auth]_vars

\* Two Step 2 invocations signed the same transaction with different signers,
\* and Step 3 then submitted with the second signature.
C8_Witness ==
    \E m, n, k \in 1..Len(trace) :
        /\ m < n /\ n < k
        /\ {m, n} \subseteq Step2Signed(trace)
        /\ trace[m].tx = trace[n].tx
        /\ trace[m].auth # trace[n].auth
        /\ trace[k].ev = "submit"
        /\ trace[k].tx = trace[n].tx
        /\ trace[k].auth = trace[n].auth

-----------------------------------------------------------------------------
\* C9: Step 1, Step 2, Step 3 run one after the other from a fresh run, with
\* every call answered successfully, end with both relay slots non-empty,
\* loading false, and a log without an ERROR entry that holds the entry of the
\* submitted transaction's hash and the entry of the successful confirmation.

\* The steps invoked in the run, in order.
StepsOf(t) ==
    LET at == {n \in 1..Len(t) : t[n].ev = "invoke"}
        F[n \in 0..Len(t)] ==
            IF n = 0 THEN <<>>
            ELSE IF n \in at THEN Append(F[n - 1], t[n].step) ELSE F[n - 1]
    IN  F[Len(t)]

HappyPathDone ==
    /\ calls = 3
    /\ inflight = <<>>
    /\ StepsOf(trace) = <<1, 2, 3>>
    /\ \A n \in 1..Len(trace) : trace[n].ok

C9_HappyPath ==
    HappyPathDone
        => /\ serializedTransaction # <<>>
           /\ secondSignerSignature # <<>>
           /\ ~loading
           /\ \A n \in 1..Len(logs) : ~IsError(logs[n])
           /\ \E n \in 1..Len(logs), m \in 1..Len(trace) :
                 /\ trace[m].ev = "submitted"
                 /\ IsSuccess(logs[n]) /\ logs[n].arg = TxHash(trace[m].tx)
           /\ \E n \in 1..Len(logs) : logs[n] = ConfirmedEntry(TRUE)

C9_Witness == HappyPathDone /\ account # NoAccount

-----------------------------------------------------------------------------
\* C10: with the handlers reachable through the rendered buttons only, at most
\* one step is in flight at any time, and loading is true while one is.

C10_OneStepInFlight ==
    /\ Len(inflight) <= 1
    /\ inflight # <<>> => loading

\* Step 3 is waiting for the confirmation.
C10_Witness ==
    /\ Len(inflight) = 1
    /\ inflight[1].step = 3 /\ inflight[1].at = "wait"
    /\ loading

-----------------------------------------------------------------------------
\* C11: when the fetch of the script in Step 1 returns a non-success response,
\* Step 1 fails: that invocation calls no transaction build with the response
\* body, and it ends by returning unsuccessfully with an entry carrying the
\* ERROR marker appended and the transaction slot unchanged.

\* inflight[j] is a Step 1 whose fetch returned a non-success response.
NonSuccessFetched(j) ==
    /\ inflight[j].step = 1
    /\ inflight[j].at # "fetch"
    /\ inflight[j].bytecode = ErrorPage

C11_NonSuccessFetchFails ==
    [][\A j \in 1..Len(inflight) :
         NonSuccessFetched(j)
             => /\ \A n \in 1..Len(NewEvents) : NewEvents[n].ev # "build"
                /\ Ended(j)
                     => /\ Last(trace') = EvReturn(1, FALSE)
                        /\ ErrorAppended
                        /\ serializedTransaction' = serializedTransaction]_vars

-----------------------------------------------------------------------------
\* C12: the log is append-only across every sequence of step invocations: each
\* step of the flow leaves the log an extension of what it was.

\* new holds the entries of old, in order, at its front.
Extends(old, new) ==
    /\ Len(new) >= Len(old)
    /\ SubSeq(new, 1, Len(old)) = old

C12_LogAppendOnly == [][Extends(logs, logs')]_vars

\* C12 as amended: the log is append-only within a run.  An invocation of
\* Step 1 that passes its account guard clears the log and starts it with its
\* own three entries; every other step of the flow leaves the log an extension
\* of what it was.

Step1Accepted == Invoked /\ InvokedStep = 1 /\ account # NoAccount

C12_LogAppendOnlyWithinRun ==
    [][IF Step1Accepted
       THEN /\ Len(logs') = 3
            /\ logs'[1] = Entry("", "=== STEP 1: Create Transaction (First Sender) ===", <<>>)
       ELSE Extends(logs, logs')]_vars

\* Step 3 has returned, and the log still begins with the entries of the
\* run's Step 1 and Step 2.
C12_Witness ==
    /\ trace # <<>> /\ Last(trace) = EvReturn(3, TRUE)
    /\ Len(logs) > 3
    /\ logs[1] = Entry("", "=== STEP 1: Create Transaction (First Sender) ===", <<>>)
    /\ \E n \in 1..Len(logs) : logs[n] = Entry("", "=== STEP 2: Second Sender Signs ===", <<>>)
    /\ Last(logs) = ConfirmedEntry(TRUE)

-----------------------------------------------------------------------------
\* C13: whatever hexadecimal string the authenticator's serialization returns
\* in Step 2, with 0x in front or without, the value Step 2 stores begins with
\* exactly one 0x, the digits Step 3 decodes from the stored value are the
\* digits of that string, and Step 3 decodes the same from the stored value
\* with its 0x taken off.

\* The digits Step 3 hands to the deserializer for a relay value.
DecodedDigits(sig) == FromHexString(SignatureHex(sig))

C13_RelayEncoding ==
    [][\A j \in 1..Len(inflight) :
         (Ended(j) /\ Last(trace') = EvReturn(2, TRUE))
             => LET h == AuthDigits(trace'[Len(trace') - 1].auth)
                    stored == secondSignerSignature'
                IN  /\ StartsWith0x(stored)
                    /\ ~StartsWith0x(Slice2(stored))
                    /\ DecodedDigits(stored) = h
                    /\ DecodedDigits(Slice2(stored)) = DecodedDigits(stored)
                    /\ Decoded(Slice2(stored)) = Decoded(stored)]_vars

\* Step 2 has stored an authenticator, and Step 3 decodes a signature of the
\* connected identity over the stored transaction from it.
C13_Witness ==
    /\ trace # <<>> /\ Last(trace) = EvReturn(2, TRUE)
    /\ Len(secondSignerSignature) = 10
    /\ StartsWith0x(secondSignerSignature)
    /\ Decoded(secondSignerSignature) # NoAuth
    /\ Decoded(secondSignerSignature).over = DeserializeTx(FromHexString(serializedTransaction))

-----------------------------------------------------------------------------
\* C14: no step of Step 2 changes the transaction slot or the address entered
\* in Step 1, and Step 2 changes the authenticator slot only in the step in
\* which it returns successfully; no step of Step 3, on success or on any
\* failure, changes either relay slot.

\* This step is the invocation of step k or the completion of one of its
\* awaited calls.
StepOf(k) ==
    \/ Invoked /\ InvokedStep = k
    \/ /\ ~Invoked
       /\ \E j \in 1..Len(inflight) :
            /\ inflight[j].step = k
            /\ \/ Ended(j)
               \/ Len(inflight') = Len(inflight) /\ inflight'[j] # inflight[j]

C14_ConsumingStepsFrame ==
    [][/\ StepOf(2)
            => /\ serializedTransaction' = serializedTransaction
               /\ secondSignerAddress' = secondSignerAddress
               /\ secondSignerSignature' # secondSignerSignature
                      => Last(trace') = EvReturn(2, TRUE)
       /\ StepOf(3)
            => /\ RelayUnchanged
               /\ secondSignerAddress' = secondSignerAddress]_vars

\* Step 3 has submitted and returned, and the slots still hold the transaction
\* and the authenticator it submitted.
C14_Witness ==
    /\ trace # <<>> /\ Last(trace) = EvReturn(3, TRUE)
    /\ \E n \in 1..Len(trace) :
          /\ trace[n].ev = "submitted"
          /\ serializedTransaction = SerializeTx(trace[n].tx)
          /\ Decoded(secondSignerSignature) = trace[n].auth

-----------------------------------------------------------------------------
\* C15: inside Step 3, submitTransaction is called only in the step in which
\* the wallet returns the sender's signature to that invocation, and the
\* confirmation wait is started only in the step in which submitTransaction
\* returns a hash to it.  When the wallet request fails no submission is made;
\* when the submission fails no confirmation wait is started and no SUCCESS
\* entry is logged.

\* The entries this step added to the log.
NewEntries ==
    IF Extends(logs, logs') THEN SubSeq(logs', Len(logs) + 1, Len(logs')) ELSE logs'

\* inflight[j] moved from one await to the next in this step.
Moved(j, from, to) ==
    /\ Len(inflight') = Len(inflight)
    /\ inflight[j].step = 3
    /\ inflight[j].at = from
    /\ inflight'[j].at = to

C15_Step3Ordering ==
    [][/\ \A n \in 1..Len(NewEvents) :
            /\ NewEvents[n].ev = "submit"
                 => /\ n > 1
                    /\ NewEvents[n - 1].ev = "signed"
                    /\ NewEvents[n - 1].step = 3
                    /\ NewEvents[n - 1].ok
                    /\ NewEvents[n - 1].tx = NewEvents[n].tx
                    /\ \E j \in 1..Len(inflight) : Moved(j, "sign", "submit")
            /\ NewEvents[n].ev = "wait"
                 => /\ n > 1
                    /\ NewEvents[n - 1].ev = "submitted"
                    /\ NewEvents[n - 1].ok
                    /\ NewEvents[n - 1].tx = NewEvents[n].tx
                    /\ \E j \in 1..Len(inflight) : Moved(j, "submit", "wait")
       /\ \A j \in 1..Len(inflight) :
            (inflight[j].step = 3 /\ Ended(j) /\ ~Last(trace').ok)
                => /\ \A n \in 1..Len(NewEvents) :
                        NewEvents[n].ev \notin {"submit", "wait"}
                   /\ inflight[j].at \in {"sign", "submit"}
                        => \A n \in 1..Len(NewEntries) : ~IsSuccess(NewEntries[n])
       /\ (\E n \in 1..Len(NewEntries) : IsSuccess(NewEntries[n]))
            => \E n \in 1..Len(NewEvents) :
                   NewEvents[n].ev = "submitted" /\ NewEvents[n].ok]_vars

\* The submission of Step 3 failed: the invocation returned with the ERROR
\* entry last in the log and no SUCCESS entry in it.
C15_Witness ==
    /\ Len(trace) >= 2
    /\ trace[Len(trace) - 1].ev = "submit"
    /\ Last(trace) = EvReturn(3, FALSE)
    /\ inflight = <<>>
    /\ IsError(Last(logs))
    /\ \A n \in 1..Len(logs) : ~IsSuccess(logs[n])

-----------------------------------------------------------------------------
\* C16: Step 2 and Step 3 accept any connected identity: invoked with an
\* account connected and their slots filled, they go on to the wallet signature
\* request without an ERROR entry, whoever is connected.  So a run is reachable
\* in which the identity that created the transaction in Step 1 also signs in
\* Step 2, though it is not the secondary address entered in Step 1, and
\* Step 3 calls submitTransaction with no ERROR entry in the log.

C16_AnyIdentityAccepted ==
    [][\A k \in {2, 3} :
         (Invoked /\ InvokedStep = k /\ ~PreconditionUnmet(k))
             => /\ Last(NewEvents) =
                       Ev("sign", k, DeserializeTx(FromHexString(serializedTransaction)),
                          NoAuth, TRUE)
                /\ \A n \in 1..Len(NewEntries) : ~IsError(NewEntries[n])]_vars

\* The sender of the transaction signed it in Step 2 in place of the secondary
\* signer, and Step 3 has called submitTransaction with that signature.
C16_Witness ==
    /\ trace # <<>> /\ Last(trace).ev = "submit"
    /\ Last(trace).auth.signer = Last(trace).tx.sender
    /\ Last(trace).auth.signer # Last(trace).tx.secondary
    /\ Last(trace).auth.over = Last(trace).tx
    /\ \A n \in 1..Len(logs) : ~IsError(logs[n])

-----------------------------------------------------------------------------
\* C17: provided every awaited call eventually returns or throws, loading, once
\* set, is eventually false again: on success, on a caught failure, and on
\* Step 1's early return at the prompt.  A step rejected by its precondition
\* does not touch loading.

C17_LoadingReleased ==
    /\ loading ~> ~loading
    /\ [][\A k \in Steps :
            (Invoked /\ InvokedStep = k /\ PreconditionUnmet(k))
                => loading' = loading]_vars

\* Step 1 has returned early at the prompt, with loading released.
C17_Witness ==
    /\ logs # <<>> /\ Last(logs) = AddressRequiredEntry
    /\ trace # <<>> /\ Last(trace) = EvReturn(1, FALSE)
    /\ inflight = <<>>
    /\ ~loading

-----------------------------------------------------------------------------
\* C18: in every reachable state a non-empty authenticator slot comes with a
\* non-empty transaction slot, and the transaction slot, once filled, is never
\* emptied.  So whenever the Step 3 button can be pressed, the handler does not
\* reject the invocation for a missing artifact.

C18_AuthenticatorImpliesTransaction ==
    /\ [](secondSignerSignature # <<>> => serializedTransaction # <<>>)
    /\ [][serializedTransaction # <<>> => serializedTransaction' # <<>>]_vars
    /\ []((StepsRendered /\ ~Step3Disabled)
            => Step3Begin(account, serializedTransaction,
                          secondSignerSignature).kind # "MissingArtifacts")

\* The Step 3 button can be pressed, and the handler would go on to the wallet.
C18_Witness ==
    /\ StepsRendered /\ ~Step3Disabled
    /\ secondSignerSignature # <<>>
    /\ serializedTransaction # <<>>
    /\ Step3Begin(account, serializedTransaction, secondSignerSignature).kind = "sign"

====
